---- MODULE Spec2Model ----
(***************************************************************************)
(* Model of the svZeroDCalibrator driver (applications/calibrator.cpp):    *)
(* graph construction with parameter-slot allocation, observation ingest,  *)
(* warm-start seeding of alpha, the Gauss-Newton loop with the temporary   *)
(* shift of every block's global_eqn_ids, and the write-back of the        *)
(* estimated parameters.                                                   *)
(*                                                                         *)
(* Floating point values are abstracted to integers.  The linear solve of  *)
(* the normal equations is an input: the step Delta is drawn from a small  *)
(* set of vectors.  MODEL::Model (add_block, add_node, finalize) and the   *)
(* blocks' update_gradient are not part of the sources at hand; they are   *)
(* modelled from their documented contract.                                *)
(***************************************************************************)
EXTENDS Integers, Sequences, FiniteSets, TLC

\* ---------------------------------------------------------------- bounds
MaxVessels == 2
MaxJunctions == 1
MaxObs == 2

\* ------------------------------------------------------ program constants
max_nliter == 100

VARIABLES
    pc,                  \* position in main()
    config_vessels,      \* input: per vessel, its zero_d_element_values object
    config_junctions,    \* input: per junction, the length of outlet_vessels
    calibrate_stenosis,  \* calibration_parameters.calibrate_stenosis_coefficient
    zero_capacitance,    \* calibration_parameters.set_capacitance_to_zero
    num_params,
    param_counter,
    blocks,              \* model->blocks in insertion order
    num_dofs,            \* model->dofhandler.size()
    y_len, dy_len,       \* sizes of y_all[k], dy_all[k] (index k + 1)
    num_observations,
    alpha,               \* function 0 .. param_counter - 1 -> value
    jacobian,            \* stored entries <<row, col>> of the sparse matrix
    residual,            \* rows of the residual that were written
    nliter, i, j,        \* loop counters of the Gauss-Newton loop
    residual_norm_sq,    \* square of residual_norm of the last solve
    out_vessels,         \* output_config["vessels"][v]["zero_d_element_values"]
    out_junctions        \* output_config["junctions"][u]["junction_values"]

vars == <<pc, config_vessels, config_junctions, calibrate_stenosis,
          zero_capacitance, num_params, param_counter, blocks, num_dofs,
          y_len, dy_len, num_observations, alpha, jacobian, residual,
          nliter, i, j, residual_norm_sq, out_vessels, out_junctions>>

\* ------------------------------------------------------------- helpers
RECURSIVE SumSeq(_)
SumSeq(s) == IF s = <<>> THEN 0 ELSE Head(s) + SumSeq(Tail(s))

Range(s) == {s[k] : k \in DOMAIN s}

\* The keys of a vessel's zero_d_element_values object.
ElementKeys == {"R_poiseuille", "C", "L", "stenosis_coefficient"}

\* The warm-start object supplied for vessel v (every value differs from
\* every other one and from 0), and an object with no key at all.
WarmFull(v) == [k \in ElementKeys |->
                  CASE k = "R_poiseuille" -> 10 * v + 1
                    [] k = "C" -> 10 * v + 2
                    [] k = "L" -> 10 * v + 3
                    [] OTHER -> 10 * v + 4]
WarmNone == [k \in {} |-> 0]

\* The vessel lists of the input: warm-start values for every vessel or
\* for none.
VesselConfigs ==
    UNION {{[v \in 1..m |-> WarmFull(v)], [v \in 1..m |-> WarmNone]} :
              m \in 0..MaxVessels}

\* The junction lists of the input going with m vessels: per junction the
\* number of its outlet vessels.  The outlet vessels are vessels of the
\* model and no vessel is the outlet of two junctions.
JunctionConfigs(m) ==
    {c \in UNION {[1..n -> 0..m] : n \in 0..MaxJunctions} : SumSeq(c) <= m}

\* nlohmann::json::value(key, default)
JsonValue(obj, key, default) ==
    IF key \in DOMAIN obj THEN obj[key] ELSE default

\* Variant: the two values the wrong way round.
NumParamsInverted(calibrate) == IF calibrate THEN 3 ELSE 4

\* int num_params = 3; if (calibrate_stenosis) { int num_params = 4; }
\* The declaration inside the braces is a new variable of the inner scope;
\* the outer num_params is the one every later line reads.
NumParams(calibrate) ==
    LET outer == 3
        inner == IF calibrate THEN 4 ELSE 3
    IN  outer

\* Variant: the loop index is pushed instead of the running counter.
AllocParamIdsLocal(counter, n) == [k \in 1..n |-> k - 1]

\* for (k = 0; k < n; k++) param_ids.push_back(param_counter++);
AllocParamIds(counter, n) == [k \in 1..n |-> counter + k - 1]

\* Number of slots of a junction: none for a single outlet, otherwise
\* num_outlets * num_params.
JunctionKind(num_outlets) ==
    IF num_outlets = 1 THEN "JUNCTION" ELSE "BLOODVESSELJUNCTION"

JunctionSlots(num_outlets, np) ==
    IF num_outlets = 1 THEN 0 ELSE num_outlets * np

\* Row count of a block kind (finalize): a vessel has two equations, a
\* junction one conservation row and one row per outlet.
RowCount(b) ==
    IF b.kind = "BLOODVESSEL" THEN 2 ELSE 1 + b.outlet_nodes

\* finalize(): contiguous equation rows in block insertion order.
RowsBefore(bs, n) == SumSeq([k \in 1..(n - 1) |-> RowCount(bs[k])])

FinalizeEqnIds(bs, n) ==
    [l \in 1..RowCount(bs[n]) |-> RowsBefore(bs, n) + l - 1]

\* model->get_block(name) for the v-th vessel and the u-th junction.
VesselBlock(v) == v
JunctionBlock(u) == Len(config_vessels) + u

NumBlocks == Len(blocks)

\* ---------------------------------------------------------------- Init
Init ==
    /\ pc = "read_config"
    /\ config_vessels \in VesselConfigs
    /\ config_junctions \in JunctionConfigs(Len(config_vessels))
    /\ calibrate_stenosis \in BOOLEAN
    /\ zero_capacitance \in BOOLEAN
    /\ num_params = 3
    /\ param_counter = 0
    /\ blocks = <<>>
    /\ num_dofs = 0
    /\ y_len = <<>>
    /\ dy_len = <<>>
    /\ num_observations = 0
    /\ alpha = <<>>
    /\ jacobian = {}
    /\ residual = {}
    /\ nliter = 0
    /\ i = 0
    /\ j = 0
    /\ residual_norm_sq = 0
    /\ out_vessels = <<>>
    /\ out_junctions = <<>>

\* --------------------------------------------------------------- actions

\* Lines 47-54: read the calibration options, select num_params.
ReadConfig ==
    /\ pc = "read_config"
    /\ num_params' = NumParams(calibrate_stenosis)
    /\ pc' = "create_vessels"
    /\ UNCHANGED <<config_vessels, config_junctions, calibrate_stenosis,
                   zero_capacitance, param_counter, blocks, num_dofs, y_len,
                   dy_len, num_observations, alpha, jacobian, residual,
                   nliter, i, j, residual_norm_sq, out_vessels, out_junctions>>

\* Lines 61-87: one pass of the vessel loop.
CreateVessel ==
    /\ pc = "create_vessels"
    /\ Len(blocks) < Len(config_vessels)
    /\ blocks' = Append(blocks,
                   [kind |-> "BLOODVESSEL",
                    global_param_ids |-> AllocParamIds(param_counter, num_params),
                    global_eqn_ids |-> <<>>,
                    outlet_nodes |-> 0])
    /\ param_counter' = param_counter + num_params
    /\ UNCHANGED <<pc, config_vessels, config_junctions, calibrate_stenosis,
                   zero_capacitance, num_params, num_dofs, y_len, dy_len,
                   num_observations, alpha, jacobian, residual, nliter, i, j,
                   residual_norm_sq, out_vessels, out_junctions>>

EndVessels ==
    /\ pc = "create_vessels"
    /\ Len(blocks) = Len(config_vessels)
    /\ pc' = "create_junctions"
    /\ UNCHANGED <<config_vessels, config_junctions, calibrate_stenosis,
                   zero_capacitance, num_params, param_counter, blocks,
                   num_dofs, y_len, dy_len, num_observations, alpha, jacobian,
                   residual, nliter, i, j, residual_norm_sq, out_vessels,
                   out_junctions>>

\* Lines 91-115: one pass of the junction loop.
CreateJunction ==
    /\ pc = "create_junctions"
    /\ Len(blocks) < Len(config_vessels) + Len(config_junctions)
    /\ LET u == Len(blocks) - Len(config_vessels) + 1
           num_outlets == config_junctions[u]
           n == JunctionSlots(num_outlets, num_params)
       IN  /\ blocks' = Append(blocks,
                          [kind |-> JunctionKind(num_outlets),
                           global_param_ids |-> AllocParamIds(param_counter, n),
                           global_eqn_ids |-> <<>>,
                           outlet_nodes |-> 0])
           /\ param_counter' = param_counter + n
    /\ UNCHANGED <<pc, config_vessels, config_junctions, calibrate_stenosis,
                   zero_capacitance, num_params, num_dofs, y_len, dy_len,
                   num_observations, alpha, jacobian, residual, nliter, i, j,
                   residual_norm_sq, out_vessels, out_junctions>>

EndJunctions ==
    /\ pc = "create_junctions"
    /\ Len(blocks) = Len(config_vessels) + Len(config_junctions)
    /\ pc' = "create_connections"
    /\ UNCHANGED <<config_vessels, config_junctions, calibrate_stenosis,
                   zero_capacitance, num_params, param_counter, blocks,
                   num_dofs, y_len, dy_len, num_observations, alpha, jacobian,
                   residual, nliter, i, j, residual_norm_sq, out_vessels,
                   out_junctions>>

\* Lines 119-133: every recorded connection becomes a node.  A junction
\* gets one outlet node per entry of its outlet_vessels (lines 111-113).
OutletNodes(n) ==
    IF n <= Len(config_vessels) THEN 0
    ELSE config_junctions[n - Len(config_vessels)]

CreateConnections ==
    /\ pc = "create_connections"
    /\ blocks' = [n \in 1..Len(blocks) |->
                    [blocks[n] EXCEPT !.outlet_nodes = OutletNodes(n)]]
    /\ pc' = "finalize"
    /\ UNCHANGED <<config_vessels, config_junctions, calibrate_stenosis,
                   zero_capacitance, num_params, param_counter, num_dofs,
                   y_len, dy_len, num_observations, alpha, jacobian, residual,
                   nliter, i, j, residual_norm_sq, out_vessels, out_junctions>>

\* Line 135: model->finalize().
Finalize ==
    /\ pc = "finalize"
    /\ blocks' = [n \in 1..Len(blocks) |->
                    [blocks[n] EXCEPT !.global_eqn_ids = FinalizeEqnIds(blocks, n)]]
    /\ num_dofs' = RowsBefore(blocks, Len(blocks) + 1)
    /\ pc' = "read_observations"
    /\ UNCHANGED <<config_vessels, config_junctions, calibrate_stenosis,
                   zero_capacitance, num_params, param_counter, y_len, dy_len,
                   num_observations, alpha, jacobian, residual, nliter, i, j,
                   residual_norm_sq, out_vessels, out_junctions>>

\* The observation arrays of the input, as <<sizes of y, sizes of dy>>:
\* every variable has n samples, or every array has MaxObs samples but the
\* dy array of the last variable, which is one sample short.
ObsLengths(nd) ==
    {<<[k \in 1..nd |-> n], [k \in 1..nd |-> n]>> : n \in 0..MaxObs}
    \cup {<<[k \in 1..nd |-> MaxObs],
            [k \in 1..nd |-> IF k = nd THEN MaxObs - 1 ELSE MaxObs]>>}

\* Lines 145-160 when the model has a variable.
ReadObservations ==
    /\ pc = "read_observations"
    /\ num_dofs > 0
    /\ \E lens \in ObsLengths(num_dofs) :
          /\ y_len' = lens[1]
          /\ dy_len' = lens[2]
          /\ num_observations' = lens[1][1]      \* y_all[0].size()
    /\ pc' = "setup_alpha"
    /\ UNCHANGED <<config_vessels, config_junctions, calibrate_stenosis,
                   zero_capacitance, num_params, param_counter, blocks,
                   num_dofs, alpha, jacobian, residual, nliter, i, j,
                   residual_norm_sq, out_vessels, out_junctions>>

\* Lines 145-160 when the model has no variable: y_all is empty and
\* y_all[0].size() reads an element that does not exist.  The run aborts or
\* goes on with whatever number was read.
ReadObservationsNoVariable ==
    /\ pc = "read_observations"
    /\ num_dofs = 0
    /\ y_len' = <<>>
    /\ dy_len' = <<>>
    /\ \/ /\ pc' = "crashed"
          /\ UNCHANGED num_observations
       \/ /\ pc' = "setup_alpha"
          /\ num_observations' \in 0..MaxObs
    /\ UNCHANGED <<config_vessels, config_junctions, calibrate_stenosis,
                   zero_capacitance, num_params, param_counter, blocks,
                   num_dofs, alpha, jacobian, residual, nliter, i, j,
                   residual_norm_sq, out_vessels, out_junctions>>

\* alpha[id] = val
Assign(a, id, val) == [a EXCEPT ![id] = val]

\* Lines 174-180: the slots of one vessel.
SeedVessel(a, b, cfg, np) ==
    LET a0 == Assign(a, b.global_param_ids[1], JsonValue(cfg, "R_poiseuille", 0))
        a1 == Assign(a0, b.global_param_ids[2], JsonValue(cfg, "C", 0))
        a2 == Assign(a1, b.global_param_ids[3], JsonValue(cfg, "L", 0))
    IN  IF np > 3
        THEN Assign(a2, b.global_param_ids[4],
                    JsonValue(cfg, "stenosis_coefficient", 0))
        ELSE a2

RECURSIVE SeedVessels(_, _)
SeedVessels(a, v) ==
    IF v > Len(config_vessels) THEN a
    ELSE SeedVessels(SeedVessel(a, blocks[VesselBlock(v)], config_vessels[v],
                                num_params), v + 1)

\* Lines 195-203: the slots of outlet o (0-based) of one junction.
SeedOutlet(a, b, o, np) ==
    LET n == b.outlet_nodes
        a0 == Assign(a, b.global_param_ids[o + 1], 0)
        a1 == Assign(a0, b.global_param_ids[o + n + 1], 0)
        a2 == Assign(a1, b.global_param_ids[o + 2 * n + 1], 0)
    IN  IF np > 3 THEN Assign(a2, b.global_param_ids[o + 3 * n + 1], 0) ELSE a2

RECURSIVE SeedOutlets(_, _, _)
SeedOutlets(a, b, o) ==
    IF o >= b.outlet_nodes THEN a
    ELSE SeedOutlets(SeedOutlet(a, b, o, num_params), b, o + 1)

RECURSIVE SeedJunctions(_, _)
SeedJunctions(a, u) ==
    IF u > Len(config_junctions) THEN a
    ELSE LET b == blocks[JunctionBlock(u)]
         IN  SeedJunctions(IF b.outlet_nodes < 2 THEN a ELSE SeedOutlets(a, b, 0),
                           u + 1)

\* The value of alpha after lines 166-204.
InitialAlpha ==
    SeedJunctions(SeedVessels([k \in 0..(param_counter - 1) |-> 0], 1), 1)

\* Lines 166-204.
SetupAlpha ==
    /\ pc = "setup_alpha"
    /\ alpha' = InitialAlpha
    /\ pc' = "alloc_system"
    /\ UNCHANGED <<config_vessels, config_junctions, calibrate_stenosis,
                   zero_capacitance, num_params, param_counter, blocks,
                   num_dofs, y_len, dy_len, num_observations, jacobian,
                   residual, nliter, i, j, residual_norm_sq, out_vessels,
                   out_junctions>>

\* Variant: one pass too many.
LoopContinuesInclusive(n) == n <= max_nliter

\* for (nliter = 0; nliter < max_nliter; ...)
LoopContinues(n) == n < max_nliter

\* Lines 211-217: the global system is created, then the loop is entered.
AllocSystem ==
    /\ pc = "alloc_system"
    /\ jacobian' = {}
    /\ residual' = {}
    /\ nliter' = 0
    /\ i' = 0
    /\ j' = 0
    /\ pc' = IF LoopContinues(0) THEN "gn_sample" ELSE "write_output"
    /\ UNCHANGED <<config_vessels, config_junctions, calibrate_stenosis,
                   zero_capacitance, num_params, param_counter, blocks,
                   num_dofs, y_len, dy_len, num_observations, alpha,
                   residual_norm_sq, out_vessels, out_junctions>>

\* Lines 225-228: y(k) = y_all[k][i]; dy(k) = dy_all[k][i] stay inside the
\* arrays of every variable.
ReadsInRange(s) ==
    \A k \in 1..num_dofs : s < y_len[k] /\ s < dy_len[k]

\* After the reads of sample i: on to the blocks, or to the next sample.
EnterBlocks ==
    /\ j' = 0
    /\ IF NumBlocks = 0
       THEN /\ i' = i + 1
            /\ pc' = "gn_sample"
       ELSE /\ i' = i
            /\ pc' = "gn_block"

\* Lines 220-228.
BuildSample ==
    /\ pc = "gn_sample"
    /\ i < num_observations
    /\ ReadsInRange(i)
    /\ EnterBlocks
    /\ UNCHANGED <<config_vessels, config_junctions, calibrate_stenosis,
                   zero_capacitance, num_params, param_counter, blocks,
                   num_dofs, y_len, dy_len, num_observations, alpha, jacobian,
                   residual, nliter, residual_norm_sq, out_vessels,
                   out_junctions>>

\* Lines 220-228 when a read falls outside its array: the run aborts, or
\* goes on with whatever value was read.
BuildSampleOutOfRange ==
    /\ pc = "gn_sample"
    /\ i < num_observations
    /\ ~ReadsInRange(i)
    /\ \/ /\ pc' = "crashed"
          /\ UNCHANGED <<i, j>>
       \/ EnterBlocks
    /\ UNCHANGED <<config_vessels, config_junctions, calibrate_stenosis,
                   zero_capacitance, num_params, param_counter, blocks,
                   num_dofs, y_len, dy_len, num_observations, alpha, jacobian,
                   residual, nliter, residual_norm_sq, out_vessels,
                   out_junctions>>

\* update_gradient: the block writes the rows of its current
\* global_eqn_ids and the columns of its global_param_ids.
GradientEntries(b) ==
    {<<r, c>> : r \in Range(b.global_eqn_ids), c \in Range(b.global_param_ids)}

GradientRows(b) == Range(b.global_eqn_ids)

\* Variant: the shift is one row instead of one sample.
ShiftEqnIdsByOne(ids, nd) == [l \in DOMAIN ids |-> ids[l] + 1]

\* Lines 235-237.
ShiftEqnIds(ids, nd) == [l \in DOMAIN ids |-> ids[l] + nd]

\* Lines 230-238: one pass of the block loop.
UpdateBlock ==
    /\ pc = "gn_block"
    /\ j < NumBlocks
    /\ LET b == blocks[j + 1]
       IN  /\ jacobian' = jacobian \cup GradientEntries(b)
           /\ residual' = residual \cup GradientRows(b)
           /\ blocks' = [blocks EXCEPT ![j + 1].global_eqn_ids =
                            ShiftEqnIds(b.global_eqn_ids, num_dofs)]
    /\ IF j + 1 < NumBlocks
       THEN /\ j' = j + 1
            /\ UNCHANGED <<i, pc>>
       ELSE /\ j' = 0
            /\ i' = i + 1
            /\ pc' = "gn_sample"
    /\ UNCHANGED <<config_vessels, config_junctions, calibrate_stenosis,
                   zero_capacitance, num_params, param_counter, num_dofs,
                   y_len, dy_len, num_observations, alpha, nliter,
                   residual_norm_sq, out_vessels, out_junctions>>

\* Variant: the shift of a single sample is taken back.
RestoreEqnIdsOnce(ids, nd, nobs) == [l \in DOMAIN ids |-> ids[l] - nd]

\* Lines 244-246.
RestoreEqnIds(ids, nd, nobs) == [l \in DOMAIN ids |-> ids[l] - nd * nobs]

\* Lines 220 and 241-247: the sample loop is over, the shift is taken back.
Restore ==
    /\ pc = "gn_sample"
    /\ ~(i < num_observations)
    /\ blocks' = [n \in 1..Len(blocks) |->
                    [blocks[n] EXCEPT !.global_eqn_ids =
                        RestoreEqnIds(blocks[n].global_eqn_ids, num_dofs,
                                      num_observations)]]
    /\ pc' = "gn_solve"
    /\ UNCHANGED <<config_vessels, config_junctions, calibrate_stenosis,
                   zero_capacitance, num_params, param_counter, num_dofs,
                   y_len, dy_len, num_observations, alpha, jacobian, residual,
                   nliter, i, j, residual_norm_sq, out_vessels, out_junctions>>

\* mat.inverse() * jacobian.transpose() * residual: the step of the normal
\* equations, an input.  It is the zero vector or moves every slot by one,
\* and alpha stays at its initial value or one below it.
StepValues == {0 - 1, 0, 1}
DriftValues == {0 - 1, 0}

StepVectors(a) ==
    {d \in {[k \in DOMAIN a |-> s] : s \in StepValues} :
        \A k \in DOMAIN a : (a[k] - d[k]) - InitialAlpha[k] \in DriftValues}

\* Lines 254-259: the sum of squares; residual_norm is its square root.
RECURSIVE SumSquares(_, _)
SumSquares(d, n) ==
    IF n <= 0 THEN 0 ELSE d[n - 1] * d[n - 1] + SumSquares(d, n - 1)

\* residual_norm < 1e-10, on integers: the sum of squares is zero.
Converged(norm_sq) == norm_sq < 1

\* Lines 249-266.
Solve ==
    /\ pc = "gn_solve"
    /\ \E delta \in StepVectors(alpha) :
          LET new_alpha == [k \in DOMAIN alpha |-> alpha[k] - delta[k]]
              diff == [k \in DOMAIN alpha |-> new_alpha[k] - alpha[k]]
              norm_sq == SumSquares(diff, param_counter)
          IN  /\ residual_norm_sq' = norm_sq
              /\ alpha' = new_alpha
              /\ IF Converged(norm_sq)
                 THEN /\ pc' = "write_output"
                      /\ UNCHANGED <<nliter, i>>
                 ELSE /\ nliter' = nliter + 1
                      /\ i' = 0
                      /\ pc' = IF LoopContinues(nliter + 1)
                               THEN "gn_sample" ELSE "write_output"
    /\ UNCHANGED <<config_vessels, config_junctions, calibrate_stenosis,
                   zero_capacitance, num_params, param_counter, blocks,
                   num_dofs, y_len, dy_len, num_observations, jacobian,
                   residual, j, out_vessels, out_junctions>>

\* Lines 275-279.
VesselStenosis(a, b, np) ==
    IF np > 3 THEN a[b.global_param_ids[4]] ELSE 0

\* Variant: the estimate is written whatever the option says.
VesselCValueEstimated(a, b, zc) == a[b.global_param_ids[2]]

\* Lines 280-284.
VesselCValue(a, b, zc) ==
    IF ~zc THEN a[b.global_param_ids[2]] ELSE 0

\* Lines 285-290.
VesselValues(a, b, np, zc) ==
    [R_poiseuille |-> a[b.global_param_ids[1]],
     C |-> VesselCValue(a, b, zc),
     L |-> a[b.global_param_ids[3]],
     stenosis_coefficient |-> VesselStenosis(a, b, np)]

\* Lines 310-323.
JunctionCValues(a, b, zc) ==
    LET n == b.outlet_nodes
    IN  IF zc THEN [o \in 1..n |-> 0]
        ELSE [o \in 1..n |-> a[b.global_param_ids[(o - 1) + n + 1]]]

\* Lines 329-341.
JunctionStenosis(a, b, np) ==
    LET n == b.outlet_nodes
    IN  IF np > 3 THEN [o \in 1..n |-> a[b.global_param_ids[(o - 1) + 3 * n + 1]]]
        ELSE [o \in 1..n |-> 0]

\* Lines 298-348: a junction with fewer than two outlets keeps its entry.
JunctionValues(a, b, np, zc) ==
    LET n == b.outlet_nodes
    IN  IF n < 2
        THEN [written |-> FALSE, R_poiseuille |-> <<>>, C |-> <<>>,
              L |-> <<>>, stenosis_coefficient |-> <<>>]
        ELSE [written |-> TRUE,
              R_poiseuille |-> [o \in 1..n |-> a[b.global_param_ids[(o - 1) + 1]]],
              C |-> JunctionCValues(a, b, zc),
              L |-> [o \in 1..n |-> a[b.global_param_ids[(o - 1) + 2 * n + 1]]],
              stenosis_coefficient |-> JunctionStenosis(a, b, np)]

\* Lines 271-356: the estimated values are written back for every vessel
\* and every junction, and the document is saved.
WriteOutput ==
    /\ pc = "write_output"
    /\ out_vessels' = [v \in 1..Len(config_vessels) |->
                          VesselValues(alpha, blocks[VesselBlock(v)],
                                       num_params, zero_capacitance)]
    /\ out_junctions' = [u \in 1..Len(config_junctions) |->
                            JunctionValues(alpha, blocks[JunctionBlock(u)],
                                           num_params, zero_capacitance)]
    /\ pc' = "done"
    /\ UNCHANGED <<config_vessels, config_junctions, calibrate_stenosis,
                   zero_capacitance, num_params, param_counter, blocks,
                   num_dofs, y_len, dy_len, num_observations, alpha, jacobian,
                   residual, nliter, i, j, residual_norm_sq>>

Next ==
    \/ ReadConfig
    \/ CreateVessel
    \/ EndVessels
    \/ CreateJunction
    \/ EndJunctions
    \/ CreateConnections
    \/ Finalize
    \/ ReadObservations
    \/ ReadObservationsNoVariable
    \/ SetupAlpha
    \/ AllocSystem
    \/ BuildSample
    \/ BuildSampleOutOfRange
    \/ UpdateBlock
    \/ Restore
    \/ Solve
    \/ WriteOutput

Spec == Init /\ [][Next]_vars

\* ================================================================ claims

Vessels == 1..Len(config_vessels)
Junctions == 1..Len(config_junctions)
BigJunctions == {u \in Junctions : config_junctions[u] >= 2}

\* Vessels plus the outlets of the junctions with two or more outlets.
ParameterisedElements ==
    Len(config_vessels)
    + SumSeq([u \in Junctions |->
                IF config_junctions[u] >= 2 THEN config_junctions[u] ELSE 0])

\* Every block was created.
GraphBuilt ==
    pc \notin {"read_config", "create_vessels", "create_junctions"}

\* The outer iteration has not started its sample sweep, or has finished it.
IterationStart == pc = "gn_sample" /\ i = 0
IterationSwept == pc \in {"gn_solve", "write_output", "done"}

\* C1: at the start of every outer iteration, at its end (all samples
\* processed, the shift taken back) and when the output is written, every
\* entry of every block's global_eqn_ids is the one finalize() assigned.
C1_ShiftRestoreExact ==
    (IterationStart \/ IterationSwept) =>
        \A n \in 1..NumBlocks :
            blocks[n].global_eqn_ids = FinalizeEqnIds(blocks, n)

C1_Witness ==
    /\ pc = "gn_solve"
    /\ nliter >= 1
    /\ num_observations = 2
    /\ NumBlocks >= 2

\* C2: with calibrate_stenosis_coefficient set, every vessel has 4 parameter
\* ids and every junction with two or more outlets has outlets x 4,
\* param_counter is 4 x (vessels + outlets of those junctions), the stenosis
\* slot is seeded from the warm-start value, and the emitted
\* stenosis_coefficient is the value of the element's own alpha slot.
C2_StenosisEnabled ==
    calibrate_stenosis =>
        /\ GraphBuilt =>
              /\ \A v \in Vessels :
                    Len(blocks[VesselBlock(v)].global_param_ids) = 4
              /\ \A u \in BigJunctions :
                    Len(blocks[JunctionBlock(u)].global_param_ids)
                        = 4 * config_junctions[u]
              /\ param_counter = 4 * ParameterisedElements
        /\ pc = "alloc_system" =>
              \A v \in Vessels :
                 alpha[blocks[VesselBlock(v)].global_param_ids[4]]
                    = JsonValue(config_vessels[v], "stenosis_coefficient", 0)
        /\ pc = "done" =>
              /\ \A v \in Vessels :
                    out_vessels[v].stenosis_coefficient
                       = alpha[blocks[VesselBlock(v)].global_param_ids[4]]
              /\ \A u \in BigJunctions : \A o \in 1..config_junctions[u] :
                    out_junctions[u].stenosis_coefficient[o]
                       = alpha[blocks[JunctionBlock(u)].global_param_ids[
                                  (o - 1) + 3 * config_junctions[u] + 1]]

\* C3: with set_capacitance_to_zero set, every emitted C (the vessels' value
\* and every entry of the array of a junction with two or more outlets) is
\* 0 whatever alpha holds; without it, the emitted C is the alpha slot of the
\* element's capacitance id.
C3_ZeroCapacitance ==
    pc = "done" =>
        /\ \A v \in Vessels :
              out_vessels[v].C =
                 IF zero_capacitance THEN 0
                 ELSE alpha[blocks[VesselBlock(v)].global_param_ids[2]]
        /\ \A u \in BigJunctions :
              /\ Len(out_junctions[u].C) = config_junctions[u]
              /\ \A o \in 1..config_junctions[u] :
                    out_junctions[u].C[o] =
                       IF zero_capacitance THEN 0
                       ELSE alpha[blocks[JunctionBlock(u)].global_param_ids[
                                     (o - 1) + config_junctions[u] + 1]]

C3_Witness ==
    /\ pc = "done"
    /\ zero_capacitance
    /\ BigJunctions # {}
    /\ \A v \in Vessels : alpha[blocks[VesselBlock(v)].global_param_ids[2]] # 0
    /\ \A u \in BigJunctions :
          alpha[blocks[JunctionBlock(u)].global_param_ids[
                   config_junctions[u] + 1]] # 0

\* C4: without calibrate_stenosis_coefficient, no slot is allocated for the
\* stenosis coefficient, param_counter is 3 x (vessels + outlets of the
\* junctions with two or more outlets), and every emitted
\* stenosis_coefficient is 0.
C4_StenosisDisabled ==
    ~calibrate_stenosis =>
        /\ GraphBuilt => param_counter = 3 * ParameterisedElements
        /\ pc = "done" =>
              /\ \A v \in Vessels : out_vessels[v].stenosis_coefficient = 0
              /\ \A u \in BigJunctions :
                    /\ Len(out_junctions[u].stenosis_coefficient)
                          = config_junctions[u]
                    /\ \A o \in 1..config_junctions[u] :
                          out_junctions[u].stenosis_coefficient[o] = 0

C4_Witness ==
    /\ pc = "done"
    /\ ~calibrate_stenosis
    /\ BigJunctions # {}
    /\ \E v \in Vessels : "stenosis_coefficient" \in DOMAIN config_vessels[v]
    /\ nliter >= 1

\* C5: after graph construction no parameter index occurs twice, neither in
\* two blocks nor within one, and the ids of all blocks together are exactly
\* 0 .. param_counter - 1.
C5_ParamSlotsUnique ==
    GraphBuilt =>
        LET ids == UNION {Range(blocks[n].global_param_ids) :
                             n \in 1..NumBlocks}
            entries == SumSeq([n \in 1..NumBlocks |->
                                 Len(blocks[n].global_param_ids)])
        IN  /\ Cardinality(ids) = entries      \* no id occurs twice
            /\ ids = 0..(param_counter - 1)
            /\ entries = param_counter

C5_Witness ==
    /\ GraphBuilt
    /\ Len(config_vessels) = 2
    /\ BigJunctions # {}
    /\ param_counter = 12

\* C6: at the start of every outer iteration the global Jacobian has no
\* stored entry and the residual has no written row.
C6_SystemResetEachIteration ==
    IterationStart => jacobian = {} /\ residual = {}

\* C7: when update_gradient is invoked for sample i, the block's
\* global_eqn_ids are its finalize() ids plus i x num_dofs; the rows lie in
\* [i x num_dofs, (i + 1) x num_dofs) and below the row count
\* num_observations x num_dofs, as is every row written by the time a
\* sample has been assembled.
C7_RowOffset ==
    /\ pc = "gn_block" =>
          LET b == blocks[j + 1]
              base == FinalizeEqnIds(blocks, j + 1)
          IN  /\ DOMAIN b.global_eqn_ids = DOMAIN base
              /\ \A l \in DOMAIN base :
                    /\ b.global_eqn_ids[l] = base[l] + i * num_dofs
                    /\ b.global_eqn_ids[l] >= i * num_dofs
                    /\ b.global_eqn_ids[l] < (i + 1) * num_dofs
                    /\ b.global_eqn_ids[l] < num_observations * num_dofs
    /\ pc = "gn_sample" =>
          /\ \A r \in residual : r >= 0 /\ r < num_observations * num_dofs
          /\ \A e \in jacobian :
                e[1] >= 0 /\ e[1] < num_observations * num_dofs

C7_Witness ==
    /\ pc = "gn_block"
    /\ i = 1
    /\ j = 1
    /\ nliter = 1
    /\ residual # {}

\* Position inside one sweep: grows with every step of the sweep.
SweepRank ==
    i * (NumBlocks + 1) + (IF pc = "gn_block" THEN j + 1 ELSE 0)

InLoop == pc \in {"gn_sample", "gn_block", "gn_solve"}

C8_LoopState ==
    /\ nliter <= max_nliter
    /\ InLoop => nliter < max_nliter
    /\ (InLoop /\ nliter > 0) => residual_norm_sq > 0
    /\ pc \in {"write_output", "done"} =>
          \/ residual_norm_sq = 0 /\ nliter + 1 >= 1 /\ nliter + 1 <= max_nliter
          \/ residual_norm_sq > 0 /\ nliter = max_nliter
    /\ pc \in {"done", "crashed"} \/ ENABLED Next

C8_LoopStep ==
    /\ pc \in {"gn_sample", "gn_block"} =>
          /\ nliter' = nliter
          /\ SweepRank <= num_observations * (NumBlocks + 1)
          /\ \/ pc' \in {"gn_sample", "gn_block"} /\ SweepRank' > SweepRank
             \/ pc' \in {"gn_solve", "crashed"}
    /\ pc = "gn_solve" =>
          /\ residual_norm_sq' =
                SumSquares([k \in DOMAIN alpha |-> alpha'[k] - alpha[k]],
                           param_counter)
          /\ IF residual_norm_sq' = 0
             THEN pc' = "write_output" /\ nliter' = nliter
             ELSE /\ nliter' = nliter + 1
                  /\ pc' = IF nliter + 1 = max_nliter
                           THEN "write_output" ELSE "gn_sample"
    /\ pc = "write_output" =>
          /\ pc' = "done"
          /\ alpha' = alpha
          /\ \A v \in Vessels :
                out_vessels'[v].R_poiseuille
                   = alpha[blocks[VesselBlock(v)].global_param_ids[1]]

C9_WarmStart ==
    pc = "alloc_system" =>
        /\ \A v \in Vessels :
              LET ids == blocks[VesselBlock(v)].global_param_ids
                  cfg == config_vessels[v]
              IN  /\ alpha[ids[1]] = JsonValue(cfg, "R_poiseuille", 0)
                  /\ alpha[ids[3]] = JsonValue(cfg, "L", 0)
                  /\ alpha[ids[2]] = IF zero_capacitance THEN 0
                                     ELSE JsonValue(cfg, "C", 0)
        /\ \A u \in Junctions :
              \A id \in Range(blocks[JunctionBlock(u)].global_param_ids) :
                 alpha[id] = 0

\* C10: past the ingest of the observations the model has a variable and
\* the y and the dy array of every variable have num_observations entries,
\* so every read of sample i < num_observations is inside its array.
C10_ObservationLengths ==
    pc \in {"setup_alpha", "alloc_system", "gn_sample", "gn_block", "gn_solve",
            "write_output", "done"} =>
        /\ num_dofs > 0
        /\ \A k \in 1..num_dofs :
              y_len[k] = num_observations /\ dy_len[k] = num_observations
        /\ \A s \in 0..(num_observations - 1) : ReadsInRange(s)
====
